---- MODULE Spec2Model ----
(***************************************************************************)
(* Model of static/static/main.js: the notification auto-dismisser.        *)
(*                                                                         *)
(*   document.addEventListener('DOMContentLoaded', function(){             *)
(*     document.querySelectorAll('.alert').forEach(function(el){           *)
(*       if (!el.classList.contains('alert-danger')){                      *)
(*         setTimeout(function(){                                          *)
(*           try{ var bs = bootstrap.Alert.getOrCreateInstance(el);        *)
(*                bs.close(); } catch(e){}                                 *)
(*         }, 4000);                                                       *)
(*       }                                                                 *)
(*     });                                                                 *)
(*   });                                                                   *)
(*                                                                         *)
(* The script runs inside a page: the document (its alert elements and     *)
(* their class markers), the DOMContentLoaded event, the timer queue of    *)
(* the event loop and the bootstrap.Alert widget are the environment the   *)
(* script's calls act on.  The clock is the timer clock of the event loop: *)
(* a timer task runs when the clock reaches its due time, and time does    *)
(* not pass a due timer that has not run (a simulated clock).              *)
(***************************************************************************)
EXTENDS Integers, Sequences, FiniteSets

\* ---- bounds of the model ----
NElems == 3
MaxClock == 6000
TickUnit == 2000

\* setTimeout(..., 4000)
Delay == 4000

Elems == 1..NElems

VARIABLES
    clock,        \* timer clock of the event loop
    docReady,     \* DOMContentLoaded has been dispatched
    listeners,    \* number of DOMContentLoaded listeners the script registered
    elState,      \* per element: "absent", "visible", "dismissing", "gone"
    danger,       \* per element: classList contains 'alert-danger'
    fwAvailable,  \* bootstrap.Alert.getOrCreateInstance can be reached
    timers,       \* pending timers, in registration order: [el, due]
    uncaught,     \* errors that propagated out of a timer callback
    scanCount,    \* runs of the DOMContentLoaded handler
    atReady,      \* per element, as the handler saw it: "none" before the scan,
                  \* then "missing" (not yet in the document), "detached",
                  \* "danger" or "eligible"
    schedAt,      \* per element: clock at setTimeout, -1 when none
    firedAt,      \* per element: clock when its callback ran, -1 when not
    attempts,     \* per element: runs of its timer callback
    closeCalls,   \* per element: bs.close() invocations made by the script
    outcome       \* per element, how its callback ended: "none" before it ran,
                  \* then "closed" (close returned on a visible alert), "noop"
                  \* (close returned on an alert already dismissed),
                  \* "closeThrew" or "noController"

vars == <<clock, docReady, listeners, elState, danger, fwAvailable, timers,
          uncaught, scanCount, atReady, schedAt, firedAt, attempts,
          closeCalls, outcome>>

env == <<elState, danger, fwAvailable>>
hist == <<atReady, schedAt, firedAt, attempts, closeCalls, outcome>>

\* ---- helpers ----
TimerEls(ts) == {ts[i].el : i \in 1..Len(ts)}

DueIdx(ts, now) == {i \in 1..Len(ts) : ts[i].due <= now}

RemoveAt(s, i) == SubSeq(s, 1, i - 1) \o SubSeq(s, i + 1, Len(s))

\* ---- the script ----

\* document.querySelectorAll('.alert'): the alert elements in the document
Matches == {e \in Elems : elState[e] \in {"visible", "dismissing"}}

\* !el.classList.contains('alert-danger')
EligibleAlways(e) == TRUE

EligibleInverted(e) == danger[e]

Eligible(e) == ~danger[e]

\* setTimeout(callback closing over el, 4000)
SetTimeoutNoDelay(ts, e, now) == Append(ts, [el |-> e, due |-> now])

SetTimeoutShortDelay(ts, e, now) == Append(ts, [el |-> e, due |-> now + Delay \div 10])

SetTimeoutTwice(ts, e, now) ==
    Append(Append(ts, [el |-> e, due |-> now + Delay]), [el |-> e, due |-> now + Delay])

SetTimeout(ts, e, now) == Append(ts, [el |-> e, due |-> now + Delay])

\* .forEach over the matches in document order, from element e on
RECURSIVE ForEachReversed(_, _, _)
ForEachReversed(e, ts, now) ==
    IF e > NElems THEN ts
    ELSE LET rest == ForEachReversed(e + 1, ts, now)
         IN  IF e \in Matches /\ Eligible(e) THEN SetTimeout(rest, e, now) ELSE rest

RECURSIVE ForEach(_, _, _)
ForEach(e, ts, now) ==
    IF e > NElems THEN ts
    ELSE ForEach(e + 1,
                 IF e \in Matches /\ Eligible(e) THEN SetTimeout(ts, e, now) ELSE ts,
                 now)

\* the DOMContentLoaded handler: scan and schedule
Handler ==
    /\ timers' = ForEach(1, timers, clock)
    /\ scanCount' = scanCount + 1
    /\ atReady' = [e \in Elems |->
                     IF elState[e] = "absent" THEN "missing"
                     ELSE IF e \notin Matches THEN "detached"
                     ELSE IF danger[e] THEN "danger" ELSE "eligible"]
    /\ schedAt' = [e \in Elems |->
                     IF e \in TimerEls(timers') \ TimerEls(timers) THEN clock
                     ELSE schedAt[e]]

\* the script is executed: document.addEventListener('DOMContentLoaded', ...)
ScriptRun ==
    /\ listeners = 0
    /\ listeners' = listeners + 1
    /\ UNCHANGED <<clock, docReady, timers, uncaught, scanCount, env, hist>>

\* the document dispatches DOMContentLoaded, once, to the registered listeners
DOMContentLoaded ==
    /\ ~docReady
    /\ docReady' = TRUE
    /\ IF listeners > 0
          THEN Handler
          ELSE UNCHANGED <<timers, scanCount, atReady, schedAt>>
    /\ UNCHANGED <<clock, listeners, uncaught, env, firedAt, attempts,
                   closeCalls, outcome>>

\* catch(e){}: whether an error thrown in the try block leaves the callback
EscapesUncaught(threw) == threw

Escapes(threw) == FALSE

\* the callback has no guard and nothing cancels it: its try block runs
\* whatever has become of the element since it was scheduled
RunsOnlyIfVisible(e) == elState[e] = "visible"

Runs(e) == TRUE

\* the elements the callback registered for el acts on: the closure's el
TargetsLastScheduled(e) ==
    {x \in Elems : schedAt[x] # -1 /\ \A y \in Elems : schedAt[y] # -1 => y <= x}

TargetsAllAlerts(e) == {x \in Elems : elState[x] \in {"visible", "dismissing"}}

TargetsRequery(e) == {x \in Elems : elState[x] \in {"visible", "dismissing"} /\ ~danger[x]}

Targets(e) == {e}

\* setTimeout is one-shot and the catch block registers nothing: the timer
\* leaves the queue when its callback has run, whether or not it threw
OneShotRetry(ts, i, threw) ==
    IF threw THEN Append(RemoveAt(ts, i), ts[i]) ELSE RemoveAt(ts, i)

OneShot(ts, i, threw) == RemoveAt(ts, i)

\* bs.close() of the widget when it does not throw: a visible alert starts
\* its close transition, an alert already closing or detached is left as is
CloseEffect(st) == IF st = "visible" THEN "dismissing" ELSE st

\* the timer callback of element e (timer i of the queue):
\*   try{ var bs = bootstrap.Alert.getOrCreateInstance(el); bs.close(); } catch(e){}
\* getOrCreateInstance throws when the framework cannot be reached; close
\* throws or not as the widget decides (closeThrows)
TimerCallback(i, closeThrows) ==
    LET e == timers[i].el
        runs == Runs(e)
        invoked == runs /\ fwAvailable
        threw == runs /\ (~fwAvailable \/ closeThrows)
    IN  /\ timers' = OneShot(timers, i, threw)
        /\ attempts' = [attempts EXCEPT ![e] = IF runs THEN @ + 1 ELSE @]
        /\ firedAt' = [firedAt EXCEPT ![e] = clock]
        /\ closeCalls' = [x \in Elems |->
                            IF invoked /\ x \in Targets(e)
                               THEN closeCalls[x] + 1 ELSE closeCalls[x]]
        /\ elState' = [x \in Elems |->
                            IF invoked /\ ~closeThrows /\ x \in Targets(e)
                               THEN CloseEffect(elState[x]) ELSE elState[x]]
        /\ outcome' = [outcome EXCEPT ![e] =
                            IF ~runs THEN "skipped"
                            ELSE IF ~fwAvailable THEN "noController"
                            ELSE IF closeThrows THEN "closeThrew"
                            ELSE IF elState[e] = "visible" THEN "closed" ELSE "noop"]
        /\ uncaught' = IF threw /\ Escapes(threw) THEN uncaught + 1 ELSE uncaught
        /\ UNCHANGED <<clock, docReady, listeners, scanCount, danger,
                       fwAvailable, atReady, schedAt>>

\* the timer the event loop runs next: due timers run in registration order
NextTimer(ts, now) == CHOOSE i \in DueIdx(ts, now) : \A j \in DueIdx(ts, now) : i <= j

\* the event loop runs a due timer task
TimerFire ==
    /\ DueIdx(timers, clock) # {}
    /\ \E closeThrows \in BOOLEAN :
          /\ (closeThrows => fwAvailable)
          /\ TimerCallback(NextTimer(timers, clock), closeThrows)

\* ---- the environment ----

\* time passes, up to the next due timer
Tick ==
    /\ DueIdx(timers, clock) = {}
    /\ clock + TickUnit <= MaxClock
    /\ LET target == clock + TickUnit
           stops == {timers[i].due : i \in DueIdx(timers, target)}
       IN  clock' = IF stops = {} THEN target
                    ELSE CHOOSE d \in stops : \A d2 \in stops : d <= d2
    /\ UNCHANGED <<docReady, listeners, timers, uncaught, scanCount, env, hist>>

\* the parser or page logic adds an alert element to the document; elements
\* are numbered in the order they enter it, which is the order a scan visits
AddAlert(e, d) ==
    /\ elState[e] = "absent"
    /\ \A x \in Elems : x < e => elState[x] # "absent"
    /\ elState' = [elState EXCEPT ![e] = "visible"]
    /\ danger' = [danger EXCEPT ![e] = d]
    /\ UNCHANGED <<clock, docReady, listeners, timers, uncaught, scanCount,
                   fwAvailable, hist>>

\* page logic adds or removes the danger marker of an element
ToggleDanger(e) ==
    /\ elState[e] \in {"visible", "dismissing"}
    /\ danger' = [danger EXCEPT ![e] = ~@]
    /\ UNCHANGED <<clock, docReady, listeners, timers, uncaught, scanCount,
                   elState, fwAvailable, hist>>

\* the user dismisses a visible alert with its close button
UserDismiss(e) ==
    /\ elState[e] = "visible"
    /\ elState' = [elState EXCEPT ![e] = "dismissing"]
    /\ UNCHANGED <<clock, docReady, listeners, timers, uncaught, scanCount,
                   danger, fwAvailable, hist>>

\* the widget's close transition ends, or page logic detaches the element;
\* the element leaves the document and its markers leave the page with it
\* (the script reads the marker of elements in the document only)
Detach(e) ==
    /\ elState[e] \in {"visible", "dismissing"}
    /\ elState' = [elState EXCEPT ![e] = "gone"]
    /\ danger' = [danger EXCEPT ![e] = FALSE]
    /\ UNCHANGED <<clock, docReady, listeners, timers, uncaught, scanCount,
                   fwAvailable, hist>>

\* the page loads the UI framework late
LoadFramework ==
    /\ ~fwAvailable
    /\ fwAvailable' = TRUE
    /\ UNCHANGED <<clock, docReady, listeners, timers, uncaught, scanCount,
                   elState, danger, hist>>

Init ==
    /\ clock = 0
    /\ docReady = FALSE
    /\ listeners = 0
    /\ elState = [e \in Elems |-> "absent"]
    /\ danger = [e \in Elems |-> FALSE]
    /\ fwAvailable \in BOOLEAN
    /\ timers = <<>>
    /\ uncaught = 0
    /\ scanCount = 0
    /\ atReady = [e \in Elems |-> "none"]
    /\ schedAt = [e \in Elems |-> -1]
    /\ firedAt = [e \in Elems |-> -1]
    /\ attempts = [e \in Elems |-> 0]
    /\ closeCalls = [e \in Elems |-> 0]
    /\ outcome = [e \in Elems |-> "none"]

Next ==
    \/ ScriptRun
    \/ DOMContentLoaded
    \/ TimerFire
    \/ Tick
    \/ \E e \in Elems, d \in BOOLEAN : AddAlert(e, d)
    \/ \E e \in Elems : ToggleDanger(e)
    \/ \E e \in Elems : UserDismiss(e)
    \/ \E e \in Elems : Detach(e)
    \/ LoadFramework

Spec == Init /\ [][Next]_vars

TypeOK ==
    /\ clock \in 0..MaxClock
    /\ docReady \in BOOLEAN
    /\ listeners \in 0..1
    /\ elState \in [Elems -> {"absent", "visible", "dismissing", "gone"}]
    /\ danger \in [Elems -> BOOLEAN]
    /\ fwAvailable \in BOOLEAN
    /\ \A i \in 1..Len(timers) : timers[i].el \in Elems
    /\ uncaught \in Nat
    /\ scanCount \in Nat
    /\ atReady \in [Elems -> {"none", "missing", "detached", "danger", "eligible"}]
    /\ outcome \in [Elems -> {"none", "skipped", "closed", "noop", "closeThrew", "noController"}]

\* ---- vocabulary of the properties ----

EligibleAtReady == {e \in Elems : atReady[e] = "eligible"}

Pending(e) == e \in TimerEls(timers)

TimersOf(e) == {i \in 1..Len(timers) : timers[i].el = e}

Fired(e) == firedAt[e] # -1

\* the step is the timer callback of element e
FireStep(e) == firedAt'[e] # firedAt[e]

\* the step is one of the script's own: its execution, its handler, a callback
ScriptStep ==
    \/ listeners' # listeners
    \/ scanCount' # scanCount
    \/ \E e \in Elems : FireStep(e)

Rank(st) == CASE st = "absent" -> 0
              [] st = "visible" -> 1
              [] st = "dismissing" -> 2
              [] st = "gone" -> 3

\* ---- C1 ----
\* C1 as claimed: every alert without the danger marker at ready-time is
\* scheduled in the handler, its callback runs exactly Delay after the
\* scheduling, and once it has run the element has received a close invocation.
C1_AsClaimed ==
    \A e \in EligibleAtReady :
        /\ schedAt[e] # -1
        /\ Pending(e) => clock <= schedAt[e] + Delay
        /\ ~Pending(e) => /\ firedAt[e] = schedAt[e] + Delay
                          /\ closeCalls[e] = 1

\* C1 as amended: every alert without the danger marker at ready-time is
\* scheduled in the handler and its callback runs exactly Delay after the
\* scheduling; the callback invokes close on the element exactly when the
\* controller accessor could be reached, and invokes nothing when it threw.
C1_ScheduledAndFiresAtDelay ==
    \A e \in EligibleAtReady :
        /\ schedAt[e] # -1
        /\ Pending(e) => clock <= schedAt[e] + Delay /\ ~Fired(e)
        /\ ~Pending(e) => /\ firedAt[e] = schedAt[e] + Delay
                          /\ attempts[e] = 1
                          /\ closeCalls[e] = IF outcome[e] = "noController" THEN 0 ELSE 1

\* A (no danger), B (danger), C (no danger): the delay has elapsed, A and C
\* have received their close invocation, B none
C1_Witness ==
    /\ atReady[1] = "eligible" /\ atReady[2] = "danger" /\ atReady[3] = "eligible"
    /\ firedAt[1] = schedAt[1] + Delay /\ firedAt[3] = schedAt[3] + Delay
    /\ schedAt[1] > 0
    /\ closeCalls[1] = 1 /\ closeCalls[2] = 0 /\ closeCalls[3] = 1

\* ---- C2 ----
\* C2: an alert that carries the danger marker when the handler runs never has
\* a close action scheduled, whatever happens to its markers afterwards.
C2_DangerNeverScheduled ==
    \A e \in Elems :
        atReady[e] = "danger" =>
            /\ schedAt[e] = -1
            /\ ~Pending(e)
            /\ attempts[e] = 0
            /\ closeCalls[e] = 0

\* a danger alert whose marker page logic removed afterwards, after the delay
\* of the eligible alerts has elapsed
C2_Witness ==
    \E e, x \in Elems :
        /\ atReady[e] = "danger" /\ ~danger[e] /\ elState[e] = "visible"
        /\ atReady[x] = "eligible" /\ outcome[x] = "closed"

\* ---- C3 ----
\* C3: when obtaining the controller or the close throws in the callback of
\* one element, no error leaves the callback, and every other scheduled
\* callback still runs at its own time and makes its close invocation.
C3_ErrorsContained ==
    /\ uncaught = 0
    /\ \A e, x \in Elems :
          (e # x /\ outcome[e] \in {"closeThrew", "noController"} /\ atReady[x] = "eligible") =>
              /\ Pending(x) => clock <= schedAt[x] + Delay
              /\ ~Pending(x) => firedAt[x] = schedAt[x] + Delay /\ attempts[x] = 1
              /\ outcome[x] \in {"closed", "noop", "closeThrew"} => closeCalls[x] = 1
              /\ outcome[x] = "closed" => elState[x] \in {"dismissing", "gone"}

\* A's close threw, C's close was still made and took effect
C3_Witness ==
    /\ atReady[1] = "eligible" /\ atReady[3] = "eligible"
    /\ outcome[1] = "closeThrew" /\ elState[1] = "visible"
    /\ outcome[3] = "closed" /\ closeCalls[3] = 1 /\ elState[3] = "dismissing"
    /\ uncaught = 0

\* ---- C4 ----
\* C4: an alert added to the page after the handler has run is never
\* scheduled and never receives a close invocation from the script.
C4_LateAlertsUntouched ==
    \A e \in Elems :
        atReady[e] = "missing" =>
            /\ schedAt[e] = -1
            /\ ~Pending(e)
            /\ attempts[e] = 0
            /\ closeCalls[e] = 0
            /\ outcome[e] = "none"

\* a non-danger alert added after the scan and before the timers of the
\* scanned alerts ran is still visible after they have run
C4_Witness ==
    \E e, x \in Elems :
        /\ atReady[e] = "missing" /\ elState[e] = "visible" /\ ~danger[e]
        /\ atReady[x] = "eligible" /\ outcome[x] = "closed"
        /\ clock > firedAt[x]

\* ---- C5 ----
\* C5 as claimed: whenever the script has been executed and the ready event
\* has fired, in either order, the scan has run exactly once; the scan never
\* runs before the ready event.
C5_AsClaimed ==
    /\ (listeners > 0 /\ docReady) => scanCount = 1
    /\ ~docReady => scanCount = 0

\* ---- C6 ----
\* C6 as claimed: at every moment at which the script invokes close on an
\* element, the element does not carry the danger marker.
C6_AsClaimed ==
    [][\A e \in Elems : closeCalls'[e] > closeCalls[e] => ~danger[e]]_vars

\* C6 as amended: every element the script invokes close on did not carry the
\* danger marker when the ready handler ran.
C6_ClosedWereEligibleAtReady ==
    \A e \in Elems : closeCalls[e] > 0 => atReady[e] = "eligible"

\* an alert eligible at ready-time that page logic marked danger has been closed
C6_Witness ==
    \E e \in Elems :
        /\ atReady[e] = "eligible" /\ danger[e]
        /\ outcome[e] = "closed" /\ closeCalls[e] = 1 /\ elState[e] = "dismissing"

\* ---- C7 ----
\* C7: the handler registers one callback per alert that is eligible at
\* ready-time and none for any other element; each such element gets at most
\* one close attempt, and exactly one once its delay has elapsed: no retry
\* after a failed attempt, no second attempt after a successful one.
C7_OneAttemptPerEligible ==
    /\ scanCount = 0 => timers = <<>>
    /\ Len(timers) = Cardinality({e \in EligibleAtReady : attempts[e] = 0})
    /\ \A e \in Elems :
          /\ Cardinality(TimersOf(e)) + attempts[e] = IF atReady[e] = "eligible" THEN 1 ELSE 0
          /\ (atReady[e] = "eligible" /\ clock > schedAt[e] + Delay) => attempts[e] = 1

\* two eligible alerts, one attempt failed and one succeeded, and time has
\* passed since: each still has exactly one attempt
C7_Witness ==
    \E e, x \in Elems :
        /\ outcome[e] = "closeThrew" /\ attempts[e] = 1
        /\ outcome[x] = "closed" /\ attempts[x] = 1
        /\ clock > firedAt[e] /\ clock > firedAt[x]
        /\ timers = <<>>

\* ---- C8 ----
\* C8: nothing cancels a scheduled callback: when an eligible alert is
\* dismissed or detached before its timer fires, the callback still runs and
\* still makes its attempt, nothing escapes it, the element stays as dismissed
\* as it was and no other element changes.
C8_NoCancellation ==
    /\ [](/\ uncaught = 0
          /\ \A e \in EligibleAtReady :
                /\ Pending(e) => clock <= schedAt[e] + Delay
                /\ ~Pending(e) => attempts[e] = 1)
    /\ [][\A e \in Elems :
            (FireStep(e) /\ elState[e] \in {"dismissing", "gone"}) =>
                /\ attempts'[e] = attempts[e] + 1
                /\ fwAvailable => closeCalls'[e] = closeCalls[e] + 1
                /\ elState' = elState
                /\ uncaught' = uncaught]_vars

\* alerts dismissed before their timers fired: the late close was a no-op
\* for one and threw for the other, both are still gone
C8_Witness ==
    \E e, x \in Elems :
        /\ outcome[e] = "noop" /\ elState[e] = "gone" /\ attempts[e] = 1
        /\ outcome[x] = "closeThrew" /\ elState[x] = "gone" /\ attempts[x] = 1
        /\ uncaught = 0

\* ---- C9 ----
\* C9: no element ever steps backwards along absent, visible (pending or
\* persistent), dismissing, gone; the only change the script makes to an
\* element is visible -> dismissing, made by that element's own timer
\* callback, for an element that was eligible at ready-time; so an alert that
\* was danger at ready-time is never changed by the script.
C9_StateMachine ==
    [][\A e \in Elems :
          /\ Rank(elState'[e]) >= Rank(elState[e])
          /\ (ScriptStep /\ elState'[e] # elState[e]) =>
                /\ FireStep(e)
                /\ atReady[e] = "eligible"
                /\ elState[e] = "visible"
                /\ elState'[e] = "dismissing"]_vars

\* an eligible alert went visible -> dismissing -> gone while a danger alert
\* is still visible
C9_Witness ==
    \E e, x \in Elems :
        /\ atReady[e] = "eligible" /\ outcome[e] = "closed" /\ elState[e] = "gone"
        /\ atReady[x] = "danger" /\ elState[x] = "visible" /\ danger[x]
        /\ timers = <<>>

\* ---- C10 ----
\* C10: a callback that runs while the framework cannot be reached fails
\* silently: nothing escapes, no element changes state, no close is invoked,
\* and its timer is gone for good: no further attempt is made, even when the
\* framework is loaded later.
C10_FrameworkUnavailable ==
    /\ [](/\ uncaught = 0
          /\ \A e \in Elems :
                outcome[e] = "noController" =>
                    ~Pending(e) /\ attempts[e] = 1 /\ closeCalls[e] = 0)
    /\ [][\A e \in Elems :
            (FireStep(e) /\ ~fwAvailable) =>
                /\ elState' = elState
                /\ closeCalls' = closeCalls
                /\ uncaught' = uncaught
                /\ outcome'[e] = "noController"
                /\ TimersOf(e)' = {}]_vars

\* every callback ran without the framework, the framework was loaded
\* afterwards, and all three alerts are still visible with no timer left
C10_Witness ==
    /\ \A e \in 1..3 : atReady[e] = "eligible" /\ outcome[e] = "noController"
                       /\ elState[e] = "visible" /\ closeCalls[e] = 0
    /\ fwAvailable
    /\ timers = <<>>

\* ---- C11 ----
\* C11: the script changes no element before the delay has elapsed: the ready
\* handler invokes no close and changes no element or marker, it only
\* registers timers; every change or close invocation the script makes is
\* made by a callback running no earlier than Delay after its scheduling.
C11_NothingBeforeDelay ==
    /\ [](\A e \in Elems :
            (attempts[e] > 0 \/ closeCalls[e] > 0 \/ outcome[e] # "none") =>
                schedAt[e] # -1 /\ clock >= schedAt[e] + Delay)
    /\ [][(scanCount' # scanCount \/ listeners' # listeners) =>
             /\ elState' = elState
             /\ danger' = danger
             /\ closeCalls' = closeCalls
             /\ attempts' = attempts]_vars
    /\ [][(ScriptStep /\ (elState' # elState \/ closeCalls' # closeCalls)) =>
             \E e \in Elems :
                 /\ FireStep(e)
                 /\ schedAt[e] # -1
                 /\ clock >= schedAt[e] + Delay]_vars

\* the handler has run and scheduled A and C, time has passed but less than
\* the delay: both are still visible and nothing has been invoked
C11_Witness ==
    /\ scanCount = 1
    /\ atReady[1] = "eligible" /\ atReady[3] = "eligible"
    /\ Pending(1) /\ Pending(3)
    /\ clock > schedAt[1] /\ clock < schedAt[1] + Delay
    /\ elState[1] = "visible" /\ elState[3] = "visible"
    /\ \A e \in Elems : closeCalls[e] = 0 /\ attempts[e] = 0

\* ---- C12 ----
\* C12: each callback is bound to its own element: when the timer registered
\* for element e fires, the close invocation it makes (one, when the
\* controller can be reached) is on e, and no other element receives an
\* invocation or changes state in that step.
C12_CallbackBoundToOwnElement ==
    [][\A e \in Elems :
          FireStep(e) =>
              /\ closeCalls'[e] = closeCalls[e] + (IF fwAvailable THEN 1 ELSE 0)
              /\ \A x \in Elems \ {e} :
                    /\ closeCalls'[x] = closeCalls[x]
                    /\ elState'[x] = elState[x]
                    /\ attempts'[x] = attempts[x]
                    /\ outcome'[x] = outcome[x]]_vars

\* A's timer has fired and closed A while B's, due at the same time, is still
\* pending: B is untouched
C12_Witness ==
    /\ atReady[1] = "eligible" /\ atReady[2] = "eligible"
    /\ outcome[1] = "closed" /\ closeCalls[1] = 1 /\ elState[1] = "dismissing"
    /\ Pending(2) /\ clock = schedAt[2] + Delay
    /\ closeCalls[2] = 0 /\ elState[2] = "visible" /\ outcome[2] = "none"

\* ---- C13 ----
\* C13: the timers of the eligible alerts are registered in the order the
\* scan visits the elements (document order) and fire in that order: for
\* eligible e1 visited before e2, the close attempt on e1 is made before the
\* close attempt on e2.
C13_FireInRegistrationOrder ==
    /\ \A i, j \in 1..Len(timers) : i < j => timers[i].el < timers[j].el
    /\ \A e1, e2 \in EligibleAtReady :
          (e1 < e2 /\ attempts[e2] > 0) => attempts[e1] > 0

\* A, B and C are eligible; A's and B's attempts have been made, C's timer
\* is due and still pending
C13_Witness ==
    /\ \A e \in 1..3 : atReady[e] = "eligible"
    /\ attempts[1] = 1 /\ attempts[2] = 1 /\ attempts[3] = 0
    /\ timers = <<[el |-> 3, due |-> schedAt[3] + Delay]>>
    /\ clock = schedAt[3] + Delay
====
